---- MODULE Spec2Model ----
(***************************************************************************)
(* Resumable ingestion engine: the paginated fetch client (Fetcher), the   *)
(* batched writer (DBWriter), the checkpoint store (saveCursor/loadCursor) *)
(* and the orchestrator (Pipeline.run), over a relational store with the   *)
(* tables ingested_events, staging_events and cursor_state.                *)
(*                                                                         *)
(* Event ids are the integers 1..total in source order.  A run of          *)
(* consecutive ids is a chunk <<lo, hi>>; a page, a write buffer and a     *)
(* table are sequences of chunks, so that pages of thousands of rows cost  *)
(* one value.  A cursor token is the number of events that precede the     *)
(* page it designates; the engine only stores and compares it.             *)
(***************************************************************************)
EXTENDS Integers, Sequences, FiniteSets, TLC

VARIABLES
    isStreamMode,     \* Fetcher.hasStreamToken: a stream token is configured
    batchSize,        \* DBWriter.batchSize
    total,            \* number of events the source holds
    ingested_events,  \* destination table: sequence of chunks of rows
    staging_events,   \* holding table: sequence of chunks of rows
    cursor_state,     \* checkpoint table: sequence of rows, in insertion order
    pc,               \* position of Pipeline.run (or of the process)
    state,            \* Pipeline.run's CursorState
    hasMore,          \* Pipeline.run's hasMore
    shouldStop,       \* Pipeline.shouldStop
    page,             \* the page Pipeline.run is processing
    buffer,           \* DBWriter.buffer: sequence of chunks
    addRest,          \* rows DBWriter.add has still to push
    call,             \* the outstanding / last fetchPage call
    runError,         \* the error Pipeline.run caught or rejected with
    fetchCalls,       \* fetchPage calls Pipeline.run has made (saturating)
    tracker,          \* ProgressTracker.currentCount
    progress,         \* pages run has received, calls of the progress callback
                      \* (both saturating) and the count last reported to it
    raw,              \* page.data: the raw records of the page being normalized
    transformed,      \* rows: what transformEvents returned for them
    flushing,         \* DBWriter.flush step by step: its connection, its batch
                      \* and what its open transaction sees
    faultsLeft,       \* failures the environment may still inject
    emptyAt,          \* positions at which the source has an empty page
    restartsLeft,     \* times a new process may still be started
    lastFlush         \* what the database did with the last flush transaction

vars == <<isStreamMode, batchSize, total, ingested_events, staging_events,
          cursor_state, pc, state, hasMore, shouldStop, page, buffer, addRest,
          call, runError, fetchCalls, tracker, progress, raw, transformed, flushing,
          faultsLeft, emptyAt, restartsLeft, lastFlush>>

confVars == <<isStreamMode, batchSize, total>>
dbVars   == <<ingested_events, staging_events, cursor_state>>
runVars  == <<pc, state, hasMore, shouldStop, page, buffer, addRest, runError,
             lastFlush, fetchCalls, tracker, progress>>
obsVars  == <<tracker, progress>>
xformVars == <<raw, transformed>>
envVars  == <<faultsLeft, emptyAt, restartsLeft>>

----------------------------------------------------------------------------
(* Bounds of the model *)

MaxFaults      == 2   \* injected failures per behaviour of the pipeline
MaxFetchFaults == 5   \* failed responses per behaviour of the fetch harness
MaxEmptyPages  == 1   \* empty pages with hasMore = true the source holds
MaxRestarts    == 1   \* process restarts per behaviour

MaxBatches     == 3   \* full batches, and full pages, the source may fill
MaxFetchCalls  == 4   \* fetchPage calls counted per run

TotalChoices         == {3, 12000, 45000}
BatchSizeChoices     == {2, 5000, 40000}
EmptyPositionChoices == {0, 5000}

----------------------------------------------------------------------------
(* Program constants *)

maxRetries          == 3       \* Fetcher.fetchPage
backoffBaseMs       == 500     \* Math.pow(2, attempt) * 500
defaultRetryAfter   == 60      \* headers['retry-after'] ?? '60'
streamLimit         == 40000   \* Pipeline.run: limit in stream mode
standardLimit       == 5000    \* Pipeline.run: limit in standard mode
checkpointModulus   == 50000   \* Pipeline.run: eventsIngested % 50000

NullCursor  == -1     \* the null cursor of CursorState.create()
EmptyCursor == -2     \* the empty string, a falsy but non-null token
NaN         == -3     \* parseInt of a non-numeric string

----------------------------------------------------------------------------
(* Chunks of rows *)

Min(a, b) == IF a < b THEN a ELSE b

ChunkLen(c) == c[2] - c[1] + 1

RECURSIVE RowCount(_)
RowCount(s) == IF s = <<>> THEN 0 ELSE ChunkLen(Head(s)) + RowCount(Tail(s))

Range(s) == {s[i] : i \in DOMAIN s}

\* id n is held by some chunk of the table
Holds(table, n) == \E i \in DOMAIN table : table[i][1] <= n /\ n <= table[i][2]

\* the maximal runs of ids of chunk c that the table does not hold
Missing(table, c) ==
    LET starts == {s \in {c[1]} \cup {table[i][2] + 1 : i \in DOMAIN table} :
                      c[1] <= s /\ s <= c[2] /\ ~Holds(table, s)}
        los(s) == {table[i][1] : i \in {j \in DOMAIN table : table[j][1] > s}}
        end(s) == IF \E l \in los(s) : l <= c[2]
                  THEN (CHOOSE l \in los(s) : \A m \in los(s) : l <= m) - 1
                  ELSE c[2]
    IN  {<<s, end(s)>> : s \in starts}

\* every id of lo..hi is in the table
Covers(table, lo, hi) == lo > hi \/ Missing(table, <<lo, hi>>) = {}

\* no id is held twice
NoDuplicateIds(table) ==
    \A i, j \in DOMAIN table :
        i # j => (table[i][2] < table[j][1] \/ table[j][2] < table[i][1])

\* a set of disjoint chunks as a sequence in id order
RECURSIVE SortChunks(_)
SortChunks(S) ==
    IF S = {} THEN <<>>
    ELSE LET c == CHOOSE x \in S : \A y \in S : x[1] <= y[1]
         IN  <<c>> \o SortChunks(S \ {c})

----------------------------------------------------------------------------
(* The source API *)

Truthy(cursor) == cursor # NullCursor /\ cursor # EmptyCursor

\* the token an empty page at position pos hands out: the same position,
\* past the empty page
PastEmpty(pos) == (0 - 10) - pos
IsPastEmpty(token) == token <= 0 - 10
PosOf(token) == IF IsPastEmpty(token) THEN (0 - 10) - token ELSE token

NoPage == [lo |-> 1, hi |-> 0, hasMore |-> FALSE, nextCursor |-> NullCursor,
           bad |-> FALSE]

PageLen(p) == p.hi - p.lo + 1

\* the pages the source may answer a request for `limit` rows with the cursor
\* `token` with: the empty page that sits at the position, or the rows that
\* follow it
ServerPages(limit, token) ==
    LET pos  == PosOf(token)
        k    == Min(limit, total - pos)
        last == pos + k >= total
        nexts == IF last THEN {pos + k, NullCursor} ELSE {pos + k}
        bads  == IF faultsLeft > 0 /\ k > 0 THEN {FALSE, TRUE} ELSE {FALSE}
    IN  IF pos \in emptyAt /\ ~IsPastEmpty(token) /\ k > 0
        THEN {[lo |-> pos + 1, hi |-> pos, hasMore |-> TRUE,
               nextCursor |-> PastEmpty(pos), bad |-> FALSE]}
        ELSE {[lo |-> pos + 1, hi |-> pos + k, hasMore |-> ~last,
               nextCursor |-> n, bad |-> b] : n \in nexts, b \in bads}

Resp(axios, status, code, dataCode, retryAfter) ==
    [axios |-> axios, status |-> status, code |-> code, dataCode |-> dataCode,
     retryAfter |-> retryAfter]

NoStatus == 0   \* an error without a response

Ok200 == Resp(TRUE, 200, "", "", "absent")

\* the failures a request can end with
ErrorResponses ==
    { Resp(FALSE, NoStatus, "", "", "absent"),               \* not an AxiosError
      Resp(TRUE, NoStatus, "ERR_NETWORK", "", "absent"),     \* network failure
      Resp(TRUE, NoStatus, "ECONNABORTED", "", "absent"),    \* timeout
      Resp(TRUE, 500, "ERR_BAD_RESPONSE", "", "absent"),
      Resp(TRUE, 401, "ERR_BAD_REQUEST", "", "absent"),
      Resp(TRUE, 403, "ERR_BAD_REQUEST", "", "absent"),
      Resp(TRUE, 401, "ECONNABORTED", "", "absent"),
      Resp(TRUE, 400, "ERR_BAD_REQUEST", "VALIDATION", "absent"),
      Resp(TRUE, 400, "ERR_BAD_REQUEST", "CURSOR_EXPIRED", "absent"),
      Resp(TRUE, 429, "ERR_BAD_REQUEST", "", "absent"),
      Resp(TRUE, 429, "ERR_BAD_REQUEST", "", "5"),
      Resp(TRUE, 429, "ECONNABORTED", "", "5") }

----------------------------------------------------------------------------
(* Fetcher.fetchPage *)

NoError == [kind |-> "none", resp |-> Ok200]
ThrownError(msg)  == [kind |-> msg, resp |-> Ok200]       \* new Error(msg)
ResponseError(r)  == [kind |-> "response", resp |-> r]    \* throw err

baseEndpoint   == "/events"
streamEndpoint == "/events/d4ta/x7k9/feed"

\* mutant: the standard endpoint whatever the configuration
endpoint_Base == baseEndpoint

\* const endpoint = this.hasStreamToken ? this.streamEndpoint
\*                                      : this.baseEndpoint
endpoint == IF isStreamMode THEN streamEndpoint ELSE baseEndpoint

IdleCall == [status |-> "idle", endpoint |-> "", limit |-> 0,
             cursor |-> NullCursor,
             hasParam |-> FALSE, attempt |-> 0, requests |-> 0, log |-> <<>>,
             page |-> NoPage, error |-> NoError]

\* const params = { limit }; if (cursor) params.cursor = cursor; first GET
StartCall(limit, cursor) ==
    [status |-> "requesting", endpoint |-> endpoint, limit |-> limit,
     cursor |-> cursor,
     hasParam |-> Truthy(cursor), attempt |-> 0, requests |-> 1, log |-> <<>>,
     page |-> NoPage, error |-> NoError]

\* parseInt(header ?? '60', 10)
ParseRetryAfter(h) ==
    CASE h = "absent" -> defaultRetryAfter
      [] h = "5"      -> 5
      [] OTHER        -> NaN

\* mutant: the safety margin is left out
RateLimitDelay_NoMargin(h) ==
    LET retryAfter == ParseRetryAfter(h)
    IN  IF retryAfter = NaN THEN NaN ELSE retryAfter * 1000

\* (retryAfter + 1) * 1000
RateLimitDelay(h) ==
    LET retryAfter == ParseRetryAfter(h)
    IN  IF retryAfter = NaN THEN NaN ELSE (retryAfter + 1) * 1000

\* Math.pow(2, attempt) * 500
BackoffDelay(attempt) == (2 ^ attempt) * backoffBaseMs

\* mutant: 403 is not taken for an auth failure
isAuthStatus_Only401(r) == r.status = 401

\* status === 401 || status === 403
isAuthStatus(r)   == r.status = 401 \/ r.status = 403
isNetworkError(r) == r.status = NoStatus \/ r.code = "ECONNABORTED"
isServerError(r)  == r.status # NoStatus /\ r.status >= 500

\* mutant: the test for a cursor in the request is left out
isCursorExpired_AnyCursor(r, c) ==
    r.status = 400 /\ r.dataCode = "CURSOR_EXPIRED"

\* status === 400 && data.code === 'CURSOR_EXPIRED' && cursor
isCursorExpired(r, c) ==
    r.status = 400 /\ r.dataCode = "CURSOR_EXPIRED" /\ Truthy(c.cursor)
\* mutant: one retry too many
mayRetry_Inclusive(r, c) ==
    (isNetworkError(r) \/ isServerError(r)) /\ c.attempt <= maxRetries

\* (isNetworkError || isServerError) && attempt < maxRetries
mayRetry(r, c) == (isNetworkError(r) \/ isServerError(r)) /\ c.attempt < maxRetries

\* mutant: params.cursor is not deleted
ClearCursor_KeepsParam(c) ==
    [c EXCEPT !.cursor = NullCursor, !.requests = @ + 1]

\* delete params.cursor; cursor = null; continue
ClearCursor(c) ==
    [c EXCEPT !.cursor = NullCursor, !.hasParam = FALSE, !.requests = @ + 1]

Logged(c, r, wait) ==
    Append(c.log, [endpoint |-> c.endpoint, resp |-> r, sent |-> c.hasParam,
                   wait |-> wait])

\* mutant: a 429 is retried within the transient budget and rethrown after it
OnError_SharedBudget(c, r) ==
    IF ~r.axios THEN
        [c EXCEPT !.status = "failed", !.error = ResponseError(r),
                  !.log = Logged(c, r, 0)]
    ELSE IF isAuthStatus(r) THEN
        [c EXCEPT !.status = "failed",
                  !.error = IF c.endpoint = streamEndpoint
                            THEN ThrownError("STREAM_TOKEN_EXPIRED")
                            ELSE ThrownError("AUTH"),
                  !.log = Logged(c, r, 0)]
    ELSE IF isCursorExpired(r, c) THEN
        [ClearCursor(c) EXCEPT !.log = Logged(c, r, 0)]
    ELSE IF (r.status = 429 \/ isNetworkError(r) \/ isServerError(r))
            /\ c.attempt < maxRetries THEN
        [c EXCEPT !.attempt = @ + 1, !.requests = @ + 1,
                  !.log = Logged(c, r, IF r.status = 429
                                       THEN RateLimitDelay(r.retryAfter)
                                       ELSE BackoffDelay(c.attempt + 1))]
    ELSE
        [c EXCEPT !.status = "failed", !.error = ResponseError(r),
                  !.log = Logged(c, r, 0)]

\* mutant: the transient test comes first
OnError_TransientFirst(c, r) ==
    IF ~r.axios THEN
        [c EXCEPT !.status = "failed", !.error = ResponseError(r),
                  !.log = Logged(c, r, 0)]
    ELSE IF mayRetry(r, c) THEN
        [c EXCEPT !.attempt = @ + 1, !.requests = @ + 1,
                  !.log = Logged(c, r, BackoffDelay(c.attempt + 1))]
    ELSE IF isAuthStatus(r) THEN
        [c EXCEPT !.status = "failed",
                  !.error = IF c.endpoint = streamEndpoint
                            THEN ThrownError("STREAM_TOKEN_EXPIRED")
                            ELSE ThrownError("AUTH"),
                  !.log = Logged(c, r, 0)]
    ELSE IF isCursorExpired(r, c) THEN
        [ClearCursor(c) EXCEPT !.log = Logged(c, r, 0)]
    ELSE IF r.status = 429 THEN
        [c EXCEPT !.requests = @ + 1,
                  !.log = Logged(c, r, RateLimitDelay(r.retryAfter))]
    ELSE
        [c EXCEPT !.status = "failed", !.error = ResponseError(r),
                  !.log = Logged(c, r, 0)]

\* the catch block of fetchPage: the call after the failed response r
OnError(c, r) ==
    IF ~r.axios THEN
        [c EXCEPT !.status = "failed", !.error = ResponseError(r),
                  !.log = Logged(c, r, 0)]
    ELSE IF isAuthStatus(r) THEN
        [c EXCEPT !.status = "failed",
                  !.error = IF c.endpoint = streamEndpoint
                            THEN ThrownError("STREAM_TOKEN_EXPIRED")
                            ELSE ThrownError("AUTH"),
                  !.log = Logged(c, r, 0)]
    ELSE IF isCursorExpired(r, c) THEN
        [ClearCursor(c) EXCEPT !.log = Logged(c, r, 0)]
    ELSE IF r.status = 429 THEN
        [c EXCEPT !.requests = @ + 1,
                  !.log = Logged(c, r, RateLimitDelay(r.retryAfter))]
    ELSE IF mayRetry(r, c) THEN
        [c EXCEPT !.attempt = @ + 1, !.requests = @ + 1,
                  !.log = Logged(c, r, BackoffDelay(c.attempt + 1))]
    ELSE
        [c EXCEPT !.status = "failed", !.error = ResponseError(r),
                  !.log = Logged(c, r, 0)]

\* the cursor the source reads the request as starting from
RequestPos(c) == IF c.hasParam THEN c.cursor ELSE 0

\* a request of the outstanding call succeeds: fetchPage returns the page
FetchSucceeds ==
    /\ call.status = "requesting"
    /\ \E p \in ServerPages(call.limit, RequestPos(call)) :
          /\ call' = [call EXCEPT !.status = "done", !.page = p,
                                  !.log = Logged(call, Ok200, 0)]
          /\ faultsLeft' = IF p.bad THEN faultsLeft - 1 ELSE faultsLeft
    /\ UNCHANGED <<confVars, xformVars, flushing, dbVars, runVars, emptyAt, restartsLeft>>

\* a request of the outstanding call fails: the catch block decides
FetchFails ==
    /\ call.status = "requesting"
    /\ faultsLeft > 0
    /\ \E r \in ErrorResponses : call' = OnError(call, r)
    /\ faultsLeft' = faultsLeft - 1
    /\ UNCHANGED <<confVars, xformVars, flushing, dbVars, runVars, emptyAt, restartsLeft>>

\* const limit = this.fetcher.isStreamMode ? 40000 : 5000
limit == IF isStreamMode THEN streamLimit ELSE standardLimit

NoFlush == [outcome |-> "none", rollback |-> "none", overlap |-> FALSE]

----------------------------------------------------------------------------
(* The relational store *)

DbError(stage) == [kind |-> stage, resp |-> Ok200]

\* INSERT INTO staging_events ... SELECT * FROM UNNEST(...)
StagingInsert(staging, batch) == staging \o batch

\* INSERT INTO ingested_events ... SELECT ... FROM staging_events
\* ON CONFLICT (id) DO NOTHING: the rows whose id the table lacks
\* mutant: a plain INSERT, without ON CONFLICT (id) DO NOTHING
Upsert_NoConflictClause(table, rows) == table \o rows

RECURSIVE Upsert(_, _)
Upsert(table, rows) ==
    IF rows = <<>> THEN table
    ELSE Upsert(table \o SortChunks(Missing(table, Head(rows))), Tail(rows))

\* the statements of the flush transaction, in order
FlushStages == <<"BEGIN", "staging", "upsert", "TRUNCATE", "COMMIT">>

\* what a flush can end as: committed, or failed at a stage, with the
\* ROLLBACK of the catch block working or failing too
FlushOutcomes ==
    {[outcome |-> "commit", rollback |-> "none"]}
    \cup (IF faultsLeft > 0
          THEN {[outcome |-> "connect", rollback |-> "none"]}
               \cup {[outcome |-> FlushStages[i], rollback |-> r] :
                        i \in DOMAIN FlushStages, r \in {"ok", "failed"}}
          ELSE {})

\* mutant: no transaction, every statement takes effect at once
FlushTxn_NoTransaction(batch, o) ==
    LET staged == StagingInsert(staging_events, batch)
        merged == Upsert(ingested_events, staged)
    IN  CASE o.outcome = "commit"  -> [ingested |-> merged, staging |-> <<>>]
          [] o.outcome = "COMMIT"  -> [ingested |-> merged, staging |-> <<>>]
          [] o.outcome = "TRUNCATE" -> [ingested |-> merged, staging |-> staged]
          [] o.outcome = "upsert"  -> [ingested |-> ingested_events,
                                       staging |-> staged]
          [] OTHER                 -> [ingested |-> ingested_events,
                                       staging |-> staging_events]

\* the tables after the transaction of flush: BEGIN ... COMMIT makes its three
\* statements visible together, and a failure before COMMIT leaves none
FlushTxn(batch, o) ==
    LET staged == StagingInsert(staging_events, batch)
        merged == Upsert(ingested_events, staged)
    IN  IF o.outcome = "commit"
        THEN [ingested |-> merged, staging |-> <<>>]
        ELSE [ingested |-> ingested_events, staging |-> staging_events]

\* the error flush rejects with: the failure, or that of ROLLBACK if it fails
FlushError(o) ==
    CASE o.outcome = "commit"   -> NoError
      [] o.rollback = "failed"  -> DbError("ROLLBACK")
      [] OTHER                  -> DbError(o.outcome)

\* const batch = this.buffer; this.buffer = [];
BufferAfterFlush(batch, o) == <<>>

\* 'TRUNCATE staging_events'
\* mutant: the holding table is not cleared
Truncate_Keep(table) == table

Truncate(table) == <<>>

\* mutant: flush has no test for an empty buffer
EmptyBufferReturns_Never == FALSE

\* if (this.buffer.length === 0) return;
EmptyBufferReturns == buffer = <<>>

\* mutant: the connection is released on success only
Released_OnSuccessOnly(f) ==
    IF f.err = NoError THEN [f EXCEPT !.held = @ - 1] ELSE f

\* finally { client.release(); }
Released(f) == [f EXCEPT !.held = @ - 1]

\* no flush in progress: no connection held, none acquired, no statement
\* issued, no call of flush made
NotFlushing ==
    [held |-> 0, acquired |-> 0, statements |-> 0, calls |-> 0,
     batch |-> <<>>, staging |-> <<>>, ingested |-> <<>>, err |-> NoError]

\* the stage after a statement of the flush transaction
NextStage(stage) ==
    CASE stage = "BEGIN"    -> "staging"
      [] stage = "staging"  -> "upsert"
      [] stage = "upsert"   -> "TRUNCATE"
      [] stage = "TRUNCATE" -> "COMMIT"
      [] stage = "COMMIT"   -> "release"

\* what the open transaction sees after a statement: BEGIN takes the
\* committed tables, the three statements work on that view
AfterStatement(f, stage) ==
    CASE stage = "BEGIN"    -> [f EXCEPT !.staging = staging_events,
                                         !.ingested = ingested_events]
      [] stage = "staging"  -> [f EXCEPT !.staging =
                                             StagingInsert(@, f.batch)]
      [] stage = "upsert"   -> [f EXCEPT !.ingested = Upsert(@, f.staging)]
      [] stage = "TRUNCATE" -> [f EXCEPT !.staging = Truncate(@)]
      [] stage = "COMMIT"   -> f

\* DBWriter.flush on a non-empty buffer, with what the database did
FlushEffect(o) ==
    LET t == FlushTxn(buffer, o)
    IN  /\ ingested_events' = t.ingested
        /\ staging_events' = t.staging
        /\ buffer' = BufferAfterFlush(buffer, o)
        /\ lastFlush' = [outcome |-> o.outcome, rollback |-> o.rollback,
                         overlap |-> \E i \in DOMAIN buffer :
                                        Missing(ingested_events, buffer[i])
                                            # {buffer[i]}]
        /\ faultsLeft' = IF o.outcome = "commit" THEN faultsLeft
                         ELSE faultsLeft - 1

\* if (this.buffer.length === 0) return;
FlushNoOp ==
    /\ buffer = <<>>
    /\ UNCHANGED <<ingested_events, staging_events, buffer, lastFlush, faultsLeft>>

----------------------------------------------------------------------------
(* CursorState, saveCursor, loadCursor *)

CursorState_create == [cursor |-> NullCursor, eventsIngested |-> 0]

\* mutant: the stored count is not read back
CursorState_fromRow_NoCount(row) ==
    [cursor |-> row.cursor_value, eventsIngested |-> 0]

\* parseInt(row.events_ingested, 10), 0 when that is NaN
CursorState_fromRow(row) ==
    [cursor |-> row.cursor_value,
     eventsIngested |-> IF row.events_ingested = NaN THEN 0
                        ELSE row.events_ingested]

\* mutant: = instead of +=
CursorState_update_Assign(st, nextCursor, countInBatch) ==
    [cursor |-> nextCursor, eventsIngested |-> countInBatch]

\* this._cursor = nextCursor; this._eventsIngested += countInBatch
CursorState_update(st, nextCursor, countInBatch) ==
    [cursor |-> nextCursor, eventsIngested |-> st.eventsIngested + countInBatch]

\* ORDER BY updated_at DESC LIMIT 1
loadCursor ==
    IF cursor_state = <<>> THEN CursorState_create
    ELSE CursorState_fromRow(cursor_state[Len(cursor_state)])

\* mutant: the null test is left out
saveCursor_NoNullCheck(st) ==
    Append(cursor_state, [cursor_value |-> st.cursor,
                          events_ingested |-> st.eventsIngested])

\* if (state.cursor === null) return; INSERT INTO cursor_state ...
saveCursor(st) ==
    IF st.cursor = NullCursor THEN cursor_state
    ELSE Append(cursor_state, [cursor_value |-> st.cursor,
                               events_ingested |-> st.eventsIngested])

----------------------------------------------------------------------------
(* The transformer: normalizeTimestamp, transformEvent, transformEvents *)

\* A JavaScript value of a raw record's field.  The number it stands for,
\* when it is one, is q * 1000 + r with 0 <= r < 1000.
JsValue(type, text, q, r) == [type |-> type, text |-> text, q |-> q, r |-> r]

Undefined == JsValue("undefined", "", 0, 0)     \* the field is absent
Null      == JsValue("null", "", 0, 0)
True      == JsValue("boolean", "true", 0, 0)
Str(text) == JsValue("string", text, 0, 0)
Num(q, r) == JsValue("number", "", q, r)
NaNValue  == JsValue("number", "NaN", 0, 0)

\* the truthiness of a value, as `if (v)` and `!v` test it
JsTruthy(v) ==
    CASE v.type \in {"undefined", "null"} -> FALSE
      [] v.type = "string"  -> v.text # ""
      [] v.type = "number"  -> v.text # "NaN" /\ ~(v.q = 0 /\ v.r = 0)
      [] v.type = "boolean" -> v.text = "true"

IsoText == "2026-01-27T19:19:13.629Z"

\* Date.parse: milliseconds since the epoch, NaN for a string that is no date
DateParse(text) ==
    IF text = IsoText THEN Num(1769541553, 629) ELSE NaNValue

\* a Date (seconds and milliseconds since the epoch), or a null timestamp
Instant(q, r) == [isNull |-> FALSE, q |-> q, r |-> r]
NullInstant   == [isNull |-> TRUE, q |-> 0, r |-> 0]

Returns(date) == [ok |-> TRUE, msg |-> "", date |-> date]
Throws(msg)   == [ok |-> FALSE, msg |-> msg, date |-> NullInstant]

\* new Date(ms) of a number, then the isNaN(date.getTime()) test
DateOfMillis(n) ==
    IF n.text = "NaN" THEN Throws("Invalid timestamp")
    ELSE Returns(Instant(n.q, n.r))

normalizeTimestamp(input) ==
    IF input.type \in {"null", "undefined"}
    THEN Throws("Invalid timestamp: missing value")
    ELSE IF input.type = "number" THEN DateOfMillis(input)
    ELSE IF input.type = "string"
    THEN LET parsed == DateParse(input.text)
         IN  IF parsed.text = "NaN" THEN Throws("Invalid timestamp string")
             ELSE DateOfMillis(parsed)
    ELSE Throws("Invalid timestamp format")

\* the row of one raw record, or the error transformEvent throws
transformEvent(rec) ==
    IF ~JsTruthy(rec.id)
    THEN [ok |-> FALSE, msg |-> "Missing id field in event"]
    ELSE LET ts == IF JsTruthy(rec.timestamp)
                   THEN normalizeTimestamp(rec.timestamp)
                   ELSE Returns(NullInstant)
         IN  IF ~ts.ok THEN [ok |-> FALSE, msg |-> ts.msg]
             ELSE [ok |-> TRUE,
                   row |-> [id |-> rec.id.text,
                            event_type |-> IF JsTruthy(rec.type) THEN rec.type
                                           ELSE Null,
                            timestamp |-> ts.date,
                            data |-> rec]]

\* mutant: records that cannot be transformed are skipped
transformEvents_SkipInvalid(rawEvents) ==
    LET valid == SelectSeq(rawEvents, LAMBDA rec : transformEvent(rec).ok)
    IN  [ok |-> TRUE,
         rows |-> [i \in DOMAIN valid |-> transformEvent(valid[i]).row]]

\* rawEvents.map(transformEvent): the rows, or the first error thrown
transformEvents(rawEvents) ==
    IF \E i \in DOMAIN rawEvents : ~transformEvent(rawEvents[i]).ok
    THEN [ok |-> FALSE, rows |-> <<>>]
    ELSE [ok |-> TRUE,
          rows |-> [i \in DOMAIN rawEvents |-> transformEvent(rawEvents[i]).row]]

----------------------------------------------------------------------------
(* DBWriter.add *)

NoRows == <<1, 0>>

\* mutant: > instead of >=
FlushThreshold_Strict == batchSize + 1

\* this.buffer.length >= this.batchSize
FlushThreshold == batchSize

Max(a, b) == IF a > b THEN a ELSE b

\* the rows the for loop pushes before its flush condition first holds
RowsUntilFlush == Max(1, FlushThreshold - RowCount(buffer))

\* for (const row of rows) this.buffer.push(row), up to a flush or to the end
Add_Push ==
    /\ pc = "add"
    /\ LET n == ChunkLen(addRest)
           k == RowsUntilFlush
       IN  IF n < k
           THEN /\ buffer' = IF n > 0 THEN Append(buffer, addRest) ELSE buffer
                /\ addRest' = NoRows
                /\ pc' = "update"
           ELSE /\ buffer' = Append(buffer, <<addRest[1], addRest[1] + k - 1>>)
                /\ addRest' = <<addRest[1] + k, addRest[2]>>
                /\ pc' = "addFlush"
    /\ UNCHANGED <<confVars, xformVars, flushing,
                   dbVars, state, hasMore, shouldStop, page, call,
                   runError, lastFlush, fetchCalls, obsVars,
                   envVars>>

\* await this.flush() inside add
Add_Flush ==
    /\ pc = "addFlush"
    /\ \E o \in FlushOutcomes :
          /\ FlushEffect(o)
          /\ IF o.outcome = "commit"
             THEN /\ pc' = "add"
                  /\ UNCHANGED runError
             ELSE /\ pc' = "catch"
                  /\ runError' = FlushError(o)
    /\ UNCHANGED <<confVars, xformVars, flushing,
                   cursor_state, state, hasMore, shouldStop, page,
                   addRest, call, fetchCalls, obsVars, emptyAt, restartsLeft>>

----------------------------------------------------------------------------
(* Pipeline.run *)

\* mutant: the count is added to the tracker's count
tracker_update_Add(count) == tracker + count

\* ProgressTracker.update: this.currentCount = count
tracker_update(count) == count

\* ProgressTracker.getSummary: the count it reports is currentCount
getSummary == [count |-> tracker]

\* no page received, the progress callback not called yet
NoProgress == [pages |-> 0, calls |-> 0, count |-> 0]

\* mutant: the read-ahead is used in both modes
useOverlap_Always == TRUE

\* const useOverlap = this.fetcher.isStreamMode
useOverlap == isStreamMode

\* one more call of this.fetcher.fetchPage
CountFetch == Min(fetchCalls + 1, MaxFetchCalls)

\* state = await loadCursor(pool) ?? CursorState.create(); the first fetch of
\* stream mode
Run_Load ==
    /\ pc = "start"
    /\ \/ /\ state' = loadCursor
          /\ hasMore' = TRUE
          /\ call' = IF useOverlap THEN StartCall(limit, loadCursor.cursor)
                     ELSE call
          /\ fetchCalls' = IF useOverlap THEN CountFetch ELSE fetchCalls
          /\ tracker' = tracker_update(loadCursor.eventsIngested)
          /\ pc' = "loop"
          /\ UNCHANGED <<runError, faultsLeft>>
       \/ /\ faultsLeft > 0
          /\ faultsLeft' = faultsLeft - 1
          /\ runError' = DbError("loadCursor")
          /\ pc' = "rejected"
          /\ UNCHANGED <<state, hasMore, call, fetchCalls, tracker>>
    /\ UNCHANGED <<confVars, xformVars, flushing,
                   dbVars, shouldStop, page, buffer, addRest,
                   lastFlush, progress, emptyAt, restartsLeft>>

\* while (hasMore && !this.shouldStop), and the fetch of standard mode
Run_Loop ==
    /\ pc = "loop"
    /\ IF hasMore /\ ~shouldStop
       THEN /\ pc' = "await"
            /\ call' = IF useOverlap THEN call
                       ELSE StartCall(limit, state.cursor)
            /\ fetchCalls' = IF useOverlap THEN fetchCalls ELSE CountFetch
       ELSE /\ pc' = "close"
            /\ UNCHANGED <<call, fetchCalls>>
    /\ UNCHANGED <<confVars, xformVars, flushing,
                   dbVars, state, hasMore, shouldStop, page, buffer,
                   addRest, runError, lastFlush, obsVars, envVars>>

\* const page = await fetch; hasMore = page.hasMore; the read-ahead of stream
\* mode; transformEvents(page.data)
Run_Await ==
    /\ pc = "await"
    /\ call.status \in {"done", "failed"}
    /\ IF call.status = "failed"
       THEN /\ runError' = call.error
            /\ pc' = "catch"
            /\ call' = IdleCall
            /\ UNCHANGED <<page, hasMore, addRest, fetchCalls, progress>>
       ELSE /\ page' = call.page
            /\ progress' = [progress EXCEPT
                                !.pages = Min(@ + 1, MaxFetchCalls)]
            /\ hasMore' = call.page.hasMore
            /\ call' = IF useOverlap /\ call.page.hasMore /\ ~shouldStop
                       THEN StartCall(limit, call.page.nextCursor)
                       ELSE IdleCall
            /\ fetchCalls' = IF useOverlap /\ call.page.hasMore /\ ~shouldStop
                             THEN CountFetch ELSE fetchCalls
            /\ IF PageLen(call.page) = 0
               THEN /\ pc' = "progress"
                    /\ UNCHANGED <<runError, addRest>>
               ELSE IF call.page.bad
               THEN /\ pc' = "catch"
                    /\ runError' = ThrownError("validation")
                    /\ UNCHANGED addRest
               ELSE /\ pc' = "add"
                    /\ addRest' = <<call.page.lo, call.page.hi>>
                    /\ UNCHANGED runError
    /\ UNCHANGED <<confVars, xformVars, flushing,
                   dbVars, state, shouldStop, buffer, lastFlush,
                   tracker, envVars>>

\* mutant: <= instead of <
CheckpointDue_Inclusive(st) == st.eventsIngested % checkpointModulus <= limit

\* eventsIngested % 50000 < limit
CheckpointDue(st) == st.eventsIngested % checkpointModulus < limit

\* state.update(page.nextCursor, rows.length);
\* this.tracker.update(state.eventsIngested)
Run_Update ==
    /\ pc = "update"
    /\ state' = CursorState_update(state, page.nextCursor, PageLen(page))
    /\ tracker' = tracker_update(state'.eventsIngested)
    /\ pc' = IF CheckpointDue(state') THEN "save" ELSE "progress"
    /\ UNCHANGED <<confVars, xformVars, flushing,
                   dbVars, hasMore, shouldStop, page, buffer,
                   addRest, call, runError, lastFlush, fetchCalls, progress,
                   envVars>>

\* await saveCursor(this.pool, state) inside the loop
Run_Save ==
    /\ pc = "save"
    /\ \/ /\ cursor_state' = saveCursor(state)
          /\ pc' = "progress"
          /\ UNCHANGED <<runError, faultsLeft>>
       \/ /\ faultsLeft > 0 /\ state.cursor # NullCursor
          /\ faultsLeft' = faultsLeft - 1
          /\ runError' = DbError("saveCursor")
          /\ pc' = "catch"
          /\ UNCHANGED cursor_state
    /\ UNCHANGED <<confVars, xformVars, flushing,
                   ingested_events, staging_events, state, hasMore,
                   shouldStop, page, buffer, addRest, call, lastFlush,
                   fetchCalls, obsVars, emptyAt, restartsLeft>>

\* this.onProgressCallback(this.tracker.getSummary(...)), and the decision to
\* pace in standard mode
Run_Progress ==
    /\ pc = "progress"
    /\ progress' = [progress EXCEPT !.calls = Min(@ + 1, MaxFetchCalls),
                                    !.count = getSummary.count]
    /\ pc' = IF ~useOverlap /\ hasMore /\ ~shouldStop THEN "pace" ELSE "loop"
    /\ UNCHANGED <<confVars, xformVars, flushing,
                   dbVars, state, hasMore, shouldStop, page, buffer,
                   addRest, call, runError, lastFlush, fetchCalls, tracker,
                   envVars>>

\* await new Promise(r => setTimeout(r, waitTime))
Run_Pace ==
    /\ pc = "pace"
    /\ pc' = "loop"
    /\ UNCHANGED <<confVars, xformVars, flushing,
                   dbVars, state, hasMore, shouldStop, page, buffer,
                   addRest, call, runError, lastFlush, fetchCalls, obsVars,
                   envVars>>

\* await this.writer.close(), after the loop (pc = "close") and in the catch
\* block (pc = "catch"); a failure here is what run rejects with
Run_Close ==
    /\ pc \in {"close", "catch"}
    /\ \/ /\ FlushNoOp
          /\ pc' = IF pc = "close" THEN "finalSave" ELSE "catchSave"
          /\ UNCHANGED runError
       \/ /\ buffer # <<>>
          /\ \E o \in FlushOutcomes :
                /\ FlushEffect(o)
                /\ IF o.outcome = "commit"
                   THEN /\ pc' = IF pc = "close" THEN "finalSave"
                                 ELSE "catchSave"
                        /\ UNCHANGED runError
                   ELSE /\ pc' = "rejected"
                        /\ runError' = FlushError(o)
    /\ UNCHANGED <<confVars, xformVars, flushing,
                   cursor_state, state, hasMore, shouldStop, page,
                   addRest, call, fetchCalls, obsVars, emptyAt, restartsLeft>>

\* await saveCursor(this.pool, state), then return or throw err
Run_FinalSave ==
    /\ pc \in {"finalSave", "catchSave"}
    /\ \/ /\ cursor_state' = saveCursor(state)
          /\ pc' = IF pc = "finalSave" THEN "returned" ELSE "rejected"
          /\ UNCHANGED <<runError, faultsLeft>>
       \/ /\ faultsLeft > 0 /\ state.cursor # NullCursor
          /\ faultsLeft' = faultsLeft - 1
          /\ runError' = DbError("saveCursor")
          /\ pc' = "rejected"
          /\ UNCHANGED cursor_state
    /\ UNCHANGED <<confVars, xformVars, flushing,
                   ingested_events, staging_events, state, hasMore,
                   shouldStop, page, buffer, addRest, call, lastFlush,
                   fetchCalls, obsVars, emptyAt, restartsLeft>>

Running == pc \notin {"harness", "dead", "crashed", "returned", "rejected"}

\* Pipeline.stop(), from the signal handler
Stop ==
    /\ Running
    /\ ~shouldStop
    /\ shouldStop' = TRUE
    /\ UNCHANGED <<confVars, xformVars, flushing,
                   dbVars, pc, state, hasMore, page, buffer, addRest,
                   call, runError, lastFlush, fetchCalls, obsVars,
                   envVars>>

\* the process is killed: everything in memory is lost, an open transaction
\* is rolled back by the database
Kill ==
    /\ Running
    /\ restartsLeft > 0
    /\ pc' = "dead"
    /\ state' = CursorState_create
    /\ hasMore' = TRUE
    /\ shouldStop' = FALSE
    /\ page' = NoPage
    /\ buffer' = <<>>
    /\ addRest' = NoRows
    /\ call' = IdleCall
    /\ runError' = NoError
    /\ lastFlush' = NoFlush
    /\ fetchCalls' = 0
    /\ tracker' = 0
    /\ progress' = NoProgress
    /\ UNCHANGED <<confVars, xformVars, flushing, dbVars, envVars>>

\* the read-ahead fetch of stream mode rejects while run is suspended on
\* something else (a flush or a checkpoint write): pendingFetch has no handler
\* yet, the rejection is unhandled and ends the process with that error
UnhandledRejection ==
    /\ useOverlap
    /\ call.status = "failed"
    /\ \/ pc = "addFlush"
       \/ pc \in {"save", "finalSave", "catchSave"} /\ state.cursor # NullCursor
       \/ pc \in {"close", "catch"} /\ buffer # <<>>
    /\ pc' = "crashed"
    /\ runError' = call.error
    /\ state' = CursorState_create
    /\ hasMore' = TRUE
    /\ shouldStop' = FALSE
    /\ page' = NoPage
    /\ buffer' = <<>>
    /\ addRest' = NoRows
    /\ call' = IdleCall
    /\ lastFlush' = NoFlush
    /\ fetchCalls' = 0
    /\ tracker' = 0
    /\ progress' = NoProgress
    /\ UNCHANGED <<confVars, xformVars, flushing, dbVars, envVars>>

\* a new process after a kill or a failed run: new Fetcher, DBWriter and
\* Pipeline over the same database
Restart ==
    /\ pc \in {"dead", "crashed", "rejected"}
    /\ restartsLeft > 0
    /\ restartsLeft' = restartsLeft - 1
    /\ pc' = "start"
    /\ state' = CursorState_create
    /\ hasMore' = TRUE
    /\ shouldStop' = FALSE
    /\ page' = NoPage
    /\ buffer' = <<>>
    /\ addRest' = NoRows
    /\ call' = IdleCall
    /\ runError' = NoError
    /\ lastFlush' = NoFlush
    /\ fetchCalls' = 0
    /\ tracker' = 0
    /\ progress' = NoProgress
    /\ UNCHANGED <<confVars, xformVars, flushing, dbVars, faultsLeft, emptyAt>>

----------------------------------------------------------------------------
(* A harness that calls fetchPage directly *)

HarnessCursors == {NullCursor, EmptyCursor, 3}

HarnessCall ==
    /\ pc = "harness"
    /\ call.status = "idle"
    /\ \E c \in HarnessCursors :
          /\ Truthy(c) => c <= total
          /\ call' = StartCall(limit, c)
    /\ UNCHANGED <<confVars, xformVars, flushing, dbVars, runVars, envVars>>

\* the sources with at most MaxEmptyPages empty pages
EmptyPageChoices ==
    {E \in SUBSET EmptyPositionChoices : Cardinality(E) <= MaxEmptyPages}

InitConf ==
    /\ isStreamMode \in BOOLEAN
    /\ batchSize \in BatchSizeChoices
    /\ total \in TotalChoices
    /\ total \div batchSize <= MaxBatches
    /\ total \div limit <= MaxBatches
    /\ batchSize > standardLimit => total > batchSize
    /\ emptyAt \in EmptyPageChoices

InitStore ==
    /\ ingested_events = <<>>
    /\ staging_events = <<>>
    /\ cursor_state = <<>>

InitRun ==
    /\ state = CursorState_create
    /\ hasMore = TRUE
    /\ shouldStop = FALSE
    /\ page = NoPage
    /\ buffer = <<>>
    /\ addRest = NoRows
    /\ call = IdleCall
    /\ runError = NoError
    /\ lastFlush = NoFlush
    /\ fetchCalls = 0
    /\ tracker = 0
    /\ progress = NoProgress
    /\ raw = <<>>
    /\ transformed = <<>>
    /\ flushing = NotFlushing

FetchInit ==
    /\ isStreamMode \in BOOLEAN
    /\ batchSize = standardLimit
    /\ total \in {t \in TotalChoices : t <= MaxBatches * standardLimit}
    /\ InitStore /\ InitRun
    /\ pc = "harness"
    /\ faultsLeft = MaxFetchFaults
    /\ emptyAt \in {E \in EmptyPageChoices : E \subseteq {0}}
    /\ restartsLeft = 0

FetchNext == HarnessCall \/ FetchSucceeds \/ FetchFails

FetchSpec == FetchInit /\ [][FetchNext]_vars

\* one call against a source of 12000 records on the standard endpoint
FetchLiveInit ==
    /\ isStreamMode = FALSE
    /\ batchSize = standardLimit
    /\ total = 12000
    /\ InitStore /\ InitRun
    /\ pc = "harness"
    /\ faultsLeft = MaxFetchFaults
    /\ emptyAt = {}
    /\ restartsLeft = 0

\* every request of a call is answered: axios resolves or rejects (the
\* client has a timeout), and the delays before a retry elapse
FetchLiveSpec ==
    FetchLiveInit /\ [][FetchNext]_vars
        /\ WF_vars(FetchSucceeds \/ FetchFails)

----------------------------------------------------------------------------
(* A harness that takes one page of raw records through the loop body *)

MaxRecords == 2   \* raw records of the page

RawIds        == {Undefined, Str(""), Str("e1"), Str("e2")}
RawTypes      == {Undefined, Str("click")}
RawTimestamps == {Undefined, Null, Str(""), Num(0, 0), Num(1769541, 612),
                  Num(1769541612, 369), Str(IsoText), Str("invalid-date"),
                  True}

RawEvent == [id : RawIds, type : RawTypes, timestamp : RawTimestamps]

RawPages == UNION {[1..n -> RawEvent] : n \in 0..MaxRecords}

\* the states a run is in when a page arrives: a first run, or one resumed
\* from the checkpoint (3, 3)
ResumedStates == {CursorState_create, [cursor |-> 3, eventsIngested |-> 3]}

TransformInit ==
    /\ isStreamMode = FALSE
    /\ batchSize = standardLimit
    /\ InitStore
    /\ raw \in RawPages
    /\ transformed = <<>>
    /\ state \in ResumedStates
    /\ hasMore = TRUE
    /\ shouldStop = FALSE
    /\ buffer = <<>>
    /\ addRest = NoRows
    /\ call = IdleCall
    /\ runError = NoError
    /\ lastFlush = NoFlush
    /\ fetchCalls = 1
    /\ tracker = state.eventsIngested
    /\ progress = [NoProgress EXCEPT !.pages = 1]
    /\ flushing = NotFlushing
    /\ total = state.eventsIngested + Len(raw)
    /\ page = [lo |-> state.eventsIngested + 1, hi |-> total,
               hasMore |-> FALSE, nextCursor |-> total, bad |-> FALSE]
    /\ pc = "transform"
    /\ faultsLeft = 0
    /\ emptyAt = {}
    /\ restartsLeft = 0

\* if (page.data.length > 0) { const rows = transformEvents(page.data); ...;
\* an error thrown is caught by the catch block of run
Transform ==
    /\ pc = "transform"
    /\ IF Len(raw) = 0
       THEN /\ pc' = "progress"
            /\ UNCHANGED <<transformed, runError>>
       ELSE LET t == transformEvents(raw)
            IN  IF t.ok
                THEN /\ transformed' = t.rows
                     /\ pc' = "add"
                     /\ UNCHANGED runError
                ELSE /\ pc' = "catch"
                     /\ runError' = ThrownError("validation")
                     /\ UNCHANGED transformed
    /\ UNCHANGED <<confVars, dbVars, flushing, raw, state, hasMore, shouldStop, page,
                   buffer, addRest, call, lastFlush, fetchCalls, obsVars,
                   envVars>>

\* await this.writer.add(rows): the rows are pushed to the buffer, which
\* stays below batchSize
Transform_Add ==
    /\ pc = "add"
    /\ pc' = "update"
    /\ buffer' = buffer \o transformed
    /\ UNCHANGED <<confVars, dbVars, flushing, xformVars, state, hasMore, shouldStop,
                   page, addRest, call, runError, lastFlush, fetchCalls,
                   obsVars, envVars>>

\* state.update(page.nextCursor, rows.length)
Transform_Update ==
    /\ pc = "update"
    /\ state' = CursorState_update(state, page.nextCursor, Len(transformed))
    /\ tracker' = tracker_update(state'.eventsIngested)
    /\ pc' = "progress"
    /\ UNCHANGED <<confVars, dbVars, flushing, xformVars, hasMore, shouldStop, page,
                   buffer, addRest, call, runError, lastFlush, fetchCalls,
                   progress, envVars>>

TransformNext == Transform \/ Transform_Add \/ Transform_Update

TransformSpec == TransformInit /\ [][TransformNext]_vars

----------------------------------------------------------------------------
(* A harness that calls DBWriter.add and DBWriter.flush, the flush taken *)
(* statement by statement.  A statement fails with a server error or with  *)
(* the connection lost, and ROLLBACK fails only with the connection lost:  *)
(* in each case the database discards the open transaction.                *)

MaxFlushCalls == 2   \* calls of flush per behaviour

\* the rows add has buffered when flush is called
HarnessBatches == {<<>>, <<<<1, 2>>>>, <<<<2, 3>>>>}

FlushInit ==
    /\ isStreamMode = FALSE
    /\ batchSize = standardLimit
    /\ total = 3
    /\ InitStore /\ InitRun
    /\ pc = "harness"
    /\ faultsLeft = MaxFaults
    /\ emptyAt = {}
    /\ restartsLeft = 0

\* await writer.add(rows), below batchSize, then writer.flush() is called
Flush_Call ==
    /\ pc = "harness"
    /\ flushing.calls < MaxFlushCalls
    /\ \E b \in HarnessBatches : buffer' = buffer \o b
    /\ flushing' = [flushing EXCEPT !.calls = @ + 1]
    /\ pc' = "flush"
    /\ UNCHANGED <<confVars, dbVars, xformVars, obsVars, state, hasMore,
                   shouldStop, page, addRest, call, runError, lastFlush,
                   fetchCalls, envVars>>

\* if (this.buffer.length === 0) return;
\* const batch = this.buffer; this.buffer = []
Flush_Enter ==
    /\ pc = "flush"
    /\ IF EmptyBufferReturns
       THEN /\ pc' = "harness"
            /\ runError' = NoError
            /\ UNCHANGED <<buffer, flushing>>
       ELSE /\ pc' = "connect"
            /\ flushing' = [flushing EXCEPT !.batch = buffer, !.err = NoError]
            /\ buffer' = <<>>
            /\ UNCHANGED runError
    /\ UNCHANGED <<confVars, dbVars, xformVars, obsVars, state, hasMore,
                   shouldStop, page, addRest, call, lastFlush, fetchCalls,
                   envVars>>

\* const client = await this.pool.connect(), outside the try block
Flush_Connect ==
    /\ pc = "connect"
    /\ \/ /\ flushing' = [flushing EXCEPT !.held = @ + 1, !.acquired = @ + 1]
          /\ pc' = "BEGIN"
          /\ UNCHANGED <<runError, faultsLeft>>
       \/ /\ faultsLeft > 0
          /\ faultsLeft' = faultsLeft - 1
          /\ runError' = DbError("connect")
          /\ pc' = "harness"
          /\ UNCHANGED flushing
    /\ UNCHANGED <<confVars, dbVars, xformVars, obsVars, state, hasMore,
                   shouldStop, page, buffer, addRest, call, lastFlush,
                   fetchCalls, emptyAt, restartsLeft>>

\* await client.query(...) for BEGIN, the staging insert, the upsert,
\* TRUNCATE and COMMIT; a failure goes to the catch block
Flush_Statement ==
    /\ pc \in Range(FlushStages)
    /\ \/ /\ flushing' = [AfterStatement(flushing, pc) EXCEPT
                             !.statements = @ + 1]
          /\ pc' = NextStage(pc)
          /\ IF pc = "COMMIT"
             THEN /\ ingested_events' = flushing.ingested
                  /\ staging_events' = flushing.staging
             ELSE UNCHANGED <<ingested_events, staging_events>>
          /\ UNCHANGED faultsLeft
       \/ /\ faultsLeft > 0
          /\ faultsLeft' = faultsLeft - 1
          /\ flushing' = [flushing EXCEPT !.statements = @ + 1,
                                          !.err = DbError(pc)]
          /\ pc' = "ROLLBACK"
          /\ UNCHANGED <<ingested_events, staging_events>>
    /\ UNCHANGED <<confVars, cursor_state, xformVars, obsVars, state, hasMore,
                   shouldStop, page, buffer, addRest, call, runError,
                   lastFlush, fetchCalls, emptyAt, restartsLeft>>

\* catch (err) { await client.query('ROLLBACK'); throw err; }
Flush_Rollback ==
    /\ pc = "ROLLBACK"
    /\ \/ /\ flushing' = [flushing EXCEPT !.statements = @ + 1]
          /\ UNCHANGED faultsLeft
       \/ /\ faultsLeft > 0
          /\ faultsLeft' = faultsLeft - 1
          /\ flushing' = [flushing EXCEPT !.statements = @ + 1,
                                          !.err = DbError("ROLLBACK")]
    /\ pc' = "release"
    /\ UNCHANGED <<confVars, dbVars, xformVars, obsVars, state, hasMore,
                   shouldStop, page, buffer, addRest, call, runError,
                   lastFlush, fetchCalls, emptyAt, restartsLeft>>

\* finally { client.release(); }: flush resolves, or rejects with the error
Flush_Release ==
    /\ pc = "release"
    /\ flushing' = Released(flushing)
    /\ runError' = flushing.err
    /\ pc' = "harness"
    /\ UNCHANGED <<confVars, dbVars, xformVars, obsVars, state, hasMore,
                   shouldStop, page, buffer, addRest, call, lastFlush,
                   fetchCalls, envVars>>

FlushNext ==
    \/ Flush_Call \/ Flush_Enter \/ Flush_Connect \/ Flush_Statement
    \/ Flush_Rollback \/ Flush_Release

FlushSpec == FlushInit /\ [][FlushNext]_vars

----------------------------------------------------------------------------
(* The pipeline *)

Init ==
    /\ InitConf /\ InitStore /\ InitRun
    /\ pc = "start"
    /\ faultsLeft = MaxFaults
    /\ restartsLeft = MaxRestarts

\* a step the process takes by itself once the awaited operation completes
ProgramStep ==
    \/ Run_Load \/ Run_Loop \/ Run_Await \/ Add_Push \/ Add_Flush
    \/ Run_Update \/ Run_Save \/ Run_Progress \/ Run_Pace \/ Run_Close
    \/ Run_FinalSave \/ FetchSucceeds

Next ==
    \/ Run_Load \/ Run_Loop \/ Run_Await \/ Add_Push \/ Add_Flush
    \/ Run_Update \/ Run_Save \/ Run_Progress \/ Run_Pace \/ Run_Close
    \/ Run_FinalSave \/ FetchSucceeds \/ FetchFails \/ UnhandledRejection
    \/ Stop \/ Kill \/ Restart

Spec == Init /\ [][Next]_vars

\* the pipeline with its single worker always resuming: an awaited operation
\* completes, and the continuation then runs
LiveSpec == Init /\ [][Next]_vars /\ WF_vars(ProgramStep)

\* Runs long enough to cross multiples of checkpointModulus: a source of
\* CheckpointTotals records without empty pages, no failure and no kill; the
\* run may be stopped.
CheckpointTotals == {52000, 80000, 100000}

CheckpointInit ==
    /\ isStreamMode \in BOOLEAN
    /\ batchSize \in {standardLimit, streamLimit}
    /\ total \in CheckpointTotals
    /\ emptyAt = {}
    /\ InitStore /\ InitRun
    /\ pc = "start"
    /\ faultsLeft = 0
    /\ restartsLeft = 0

CheckpointNext == ProgramStep \/ Stop

CheckpointSpec == CheckpointInit /\ [][CheckpointNext]_vars

----------------------------------------------------------------------------
(* Properties of the pipeline and the writer (under Spec) *)

\* a step in which DBWriter.flush, called with a non-empty buffer, rejects
FlushFailedStep ==
    /\ pc \in {"addFlush", "close", "catch"}
    /\ pc' \in {"catch", "rejected"}
    /\ pc' # pc
    /\ buffer # <<>>
    /\ lastFlush'.outcome \notin {"none", "commit"}

\* C1: every persisted checkpoint covers only rows that are committed to the
\* destination table: all events that precede the position its cursor resumes
\* from are in ingested_events, none only in the writer's buffer.
C1_CheckpointOnlyAfterCommit ==
    \A i \in DOMAIN cursor_state :
        Truthy(cursor_state[i].cursor_value)
            => Covers(ingested_events, 1, cursor_state[i].cursor_value)

\* C2: when a run returns normally after the source reported its last page,
\* whatever kills and restarts preceded it, the destination holds every event
\* id of the source exactly once.
C2_ExactlyOnceAfterCleanRun ==
    (pc = "returned" /\ ~hasMore)
        => (Covers(ingested_events, 1, total) /\ NoDuplicateIds(ingested_events))

\* C3: the destination never holds two rows with the same id, also after rows
\* that are already there have been flushed again (by the same writer or by
\* the writer of a restarted process); such a flush commits, and the number of
\* rows equals the number of distinct ids.
C3_IdempotentMerge ==
    /\ NoDuplicateIds(ingested_events)
    /\ RowCount(ingested_events) <= total

C3_Witness ==
    /\ lastFlush.outcome = "commit"
    /\ lastFlush.overlap
    /\ ingested_events # <<>>

\* C4: when flush fails, the buffer still holds the rows it held before the
\* call.
C4_BufferKeptOnFlushFailure == [][FlushFailedStep => buffer' = buffer]_vars

\* C5 (as claimed): when flush fails, the destination is as before and flush
\* rejects with the failure of the step that failed.
C5_RejectsWithTheFailure ==
    [][FlushFailedStep =>
          /\ ingested_events' = ingested_events
          /\ runError'.kind = lastFlush'.outcome]_vars

\* C5 (amended): when flush fails, the destination and the holding table are
\* as before the call, and flush rejects with the failure of the step that
\* failed, unless ROLLBACK fails too: then it rejects with ROLLBACK's failure.
C5_AllOrNothing ==
    [][FlushFailedStep =>
          /\ ingested_events' = ingested_events
          /\ staging_events' = staging_events
          /\ runError'.kind = IF lastFlush'.rollback = "failed" THEN "ROLLBACK"
                              ELSE lastFlush'.outcome]_vars

C5_Witness ==
    /\ pc \in {"catch", "rejected"}
    /\ lastFlush.outcome = "COMMIT"
    /\ lastFlush.rollback = "failed"
    /\ runError.kind = "ROLLBACK"
    /\ ingested_events # <<>>

\* C6: add flushes each time the buffer reaches batchSize and returns only
\* when its flushes are done: a flush in add runs on exactly batchSize rows,
\* and outside of it, in particular after add has returned, the buffer holds
\* fewer than batchSize rows.
C6_BufferBelowBatchSize ==
    /\ pc = "addFlush" => RowCount(buffer) = batchSize
    /\ pc # "addFlush" => RowCount(buffer) < batchSize
    /\ pc = "update" => ChunkLen(addRest) = 0

C6_Witness ==
    /\ pc = "update"
    /\ PageLen(page) = batchSize
    /\ buffer = <<>>
    /\ Covers(ingested_events, page.lo, page.hi)

----------------------------------------------------------------------------
(* Properties of one fetchPage call (under FetchSpec) *)

\* a network error, a timeout or a 5xx response
IsTransientFailure(r) == r.axios /\ (r.status = NoStatus \/ r.status >= 500)

IsCursorExpiredResponse(r) == r.status = 400 /\ r.dataCode = "CURSOR_EXPIRED"

OnlyTransientFailures ==
    \A i \in DOMAIN call.log : IsTransientFailure(call.log[i].resp)

\* C7: a call whose every request fails with a network error, a timeout or a
\* 5xx makes exactly 4 requests, waits 1s, 2s and 4s between them, and then
\* fails; a request that succeeds ends the call with its page.
C7_RetryExhaustion ==
    /\ OnlyTransientFailures =>
          /\ call.requests <= maxRetries + 1
          /\ \A i \in DOMAIN call.log :
                i <= maxRetries => call.log[i].wait = 1000 * 2 ^ (i - 1)
          /\ call.status = "failed" =>
                /\ call.requests = 4
                /\ Len(call.log) = 4
                /\ call.error = ResponseError(call.log[4].resp)
          /\ call.status = "requesting" => call.requests = Len(call.log) + 1
    /\ \A i \in DOMAIN call.log :
          call.log[i].resp = Ok200 => (i = Len(call.log) /\ call.status = "done")

C7_Witness ==
    /\ call.status = "failed"
    /\ OnlyTransientFailures
    /\ Len(call.log) = 4

\* C8: a 429 never ends the call: the call waits the hinted seconds plus one
\* second and issues the next request, and the 429s do not count as
\* transient retries.
C8_RateLimitAbsorbed ==
    /\ \A i \in DOMAIN call.log :
          call.log[i].resp.status = 429 =>
             /\ call.log[i].resp.retryAfter = "5" => call.log[i].wait = 6000
             /\ call.log[i].wait > 0
             /\ i = Len(call.log) => call.status = "requesting"
    /\ call.attempt <=
          Cardinality({i \in DOMAIN call.log : call.log[i].resp.status # 429})
    /\ call.requests >= Len(call.log)

C8_Witness ==
    /\ call.status = "done"
    /\ Len(call.log) = 3
    /\ call.log[1].resp.status = 429
    /\ call.log[2].resp.status = 429
    /\ call.attempt = 0

\* C9: a cursor-expired response to a request that carried a cursor makes the
\* call retry at once without the cursor, at most once per call; when that
\* request succeeds the call returns its page, the first page of the source.
C9_CursorExpiryRecovery ==
    /\ \A i \in DOMAIN call.log :
          (IsCursorExpiredResponse(call.log[i].resp) /\ call.log[i].sent) =>
             /\ call.log[i].wait = 0
             /\ IF i < Len(call.log) THEN ~call.log[i + 1].sent
                ELSE call.status = "requesting" /\ ~call.hasParam
             /\ (i + 1 = Len(call.log) /\ call.log[i + 1].resp = Ok200) =>
                   (call.status = "done" /\ call.page.lo = 1)
    /\ Cardinality({i \in DOMAIN call.log :
                       IsCursorExpiredResponse(call.log[i].resp)
                       /\ call.log[i].sent}) <= 1

C9_Witness ==
    /\ call.status = "done"
    /\ Len(call.log) = 2
    /\ IsCursorExpiredResponse(call.log[1].resp)
    /\ call.log[1].sent
    /\ call.page.lo = 1

SurfacedFailure == call.status = "failed" /\ call.error.kind = "response"

\* C10 (as claimed): fetchPage never fails with a rate-limit error or with a
\* cursor-expired error.
C10_NeverSurfaced ==
    SurfacedFailure =>
        /\ call.error.resp.status # 429
        /\ ~IsCursorExpiredResponse(call.error.resp)

\* C10 (amended): fetchPage never fails with a rate-limit error, and it fails
\* with a cursor-expired error only when the rejected request carried no
\* cursor (none was supplied, or it was cleared earlier in the call).
C10_SurfacedOnlyWithoutCursor ==
    SurfacedFailure =>
        /\ call.error.resp.status # 429
        /\ IsCursorExpiredResponse(call.error.resp) =>
              ~call.log[Len(call.log)].sent

C10_Witness ==
    /\ SurfacedFailure
    /\ IsCursorExpiredResponse(call.error.resp)
    /\ Len(call.log) = 2
    /\ call.log[1].sent
    /\ IsCursorExpiredResponse(call.log[1].resp)

\* a 401 or 403 response
IsAuthResponse(r) == r.axios /\ r.status \in {401, 403}

\* C11: a 401 or 403 response is the last response of its call: the call has
\* failed, no request follows it whatever retries came before, and the
\* failure is the auth error on the standard endpoint and
\* STREAM_TOKEN_EXPIRED on the stream endpoint.
C11_AuthFailsAtOnce ==
    \A i \in DOMAIN call.log :
        IsAuthResponse(call.log[i].resp) =>
            /\ i = Len(call.log)
            /\ call.status = "failed"
            /\ call.requests = Len(call.log)
            /\ call.error.kind = IF isStreamMode THEN "STREAM_TOKEN_EXPIRED"
                                 ELSE "AUTH"

C11_Witness ==
    /\ call.status = "failed"
    /\ Len(call.log) = 4
    /\ IsTransientFailure(call.log[1].resp)
    /\ call.log[2].resp.status = 429
    /\ IsCursorExpiredResponse(call.log[3].resp)
    /\ call.log[4].resp.status = 403
    /\ isStreamMode
    /\ call.error.kind = "STREAM_TOKEN_EXPIRED"

----------------------------------------------------------------------------
(* Properties of the error paths and of the checkpoint (under Spec) *)

\* C12: a credential expiry met in stream mode never ends the process
\* undrained: run catches it, makes no further fetch, flushes the writer,
\* persists its checkpoint and rejects with STREAM_TOKEN_EXPIRED.
C12_CredentialExpiryDrains ==
    /\ pc = "crashed" => runError.kind # "STREAM_TOKEN_EXPIRED"
    /\ (pc = "rejected" /\ runError.kind = "STREAM_TOKEN_EXPIRED") =>
          /\ buffer = <<>>
          /\ call.status = "idle"
          /\ state.cursor # NullCursor => loadCursor = state

\* C13: when run leaves its catch block, the writer has been flushed, the
\* checkpoint has been persisted, and run rejects with the error it caught,
\* also when the flush or the checkpoint write of the catch block fails.
C13_DrainThenSameError ==
    [][(pc \in {"catch", "catchSave"} /\ pc' = "rejected") =>
          /\ runError' = runError
          /\ buffer' = <<>>
          /\ state.cursor # NullCursor =>
                (cursor_state' # <<>>
                 /\ cursor_state'[Len(cursor_state')] =
                       [cursor_value |-> state.cursor,
                        events_ingested |-> state.eventsIngested])]_vars

\* C14: when the first run has rejected, every row that the persisted
\* checkpoint counts (every event before its cursor) is in the destination
\* or still in the writer's buffer.
C14_NoCountedRowLost ==
    (pc = "rejected" /\ restartsLeft = MaxRestarts /\ cursor_state # <<>>) =>
        Covers(ingested_events \o buffer, 1, PosOf(loadCursor.cursor))

\* the first request of the first fetchPage call of a run is outstanding
FirstFetch ==
    /\ Running
    /\ fetchCalls = 1
    /\ call.status = "requesting"
    /\ call.log = <<>>

\* a step of a run that leaves the state as the claim says: update adds the
\* page's k rows and takes its next cursor, nothing else touches the state
StateStep ==
    /\ (pc = "update" /\ pc' \in {"save", "progress"}) =>
          (/\ state'.cursor = page.nextCursor
           /\ state'.eventsIngested = state.eventsIngested + PageLen(page)
           /\ PageLen(page) > 0)
    /\ (Running /\ Running' /\ pc \notin {"start", "update"}) =>
          state' = state

\* C15: the first fetch of a run carries the cursor of the stored checkpoint
\* (none when the store is empty) and the run's state is the stored (T, C),
\* or (null, 0) when the store is empty; and each page of k rows with next
\* cursor T' that has been handed to the writer takes the state from (T, C)
\* to (T', C + k), nothing else changing the state within a run.
C15_ResumeCorrectness ==
    /\ [](FirstFetch =>
            /\ state = loadCursor
            /\ call.cursor = loadCursor.cursor
            /\ call.hasParam = Truthy(loadCursor.cursor)
            /\ cursor_state = <<>> =>
                  (~call.hasParam /\ state.eventsIngested = 0))
    /\ [][StateStep]_vars

C15_Witness ==
    /\ restartsLeft < MaxRestarts
    /\ pc \in {"save", "progress"}
    /\ page.lo = standardLimit + 1
    /\ PageLen(page) = standardLimit
    /\ state.cursor = page.nextCursor
    /\ state.eventsIngested = 2 * standardLimit
    /\ cursor_state # <<>>
    /\ loadCursor.eventsIngested = standardLimit

\* C16: the eventsIngested values of the persisted checkpoints, in the order
\* they were written, never decrease, within a run and across restarts.
C16_CountNeverDecreases ==
    \A i, j \in DOMAIN cursor_state :
        i <= j => cursor_state[i].events_ingested <= cursor_state[j].events_ingested

C16_Witness ==
    /\ restartsLeft < MaxRestarts
    /\ Len(cursor_state) >= 2
    /\ cursor_state[1].events_ingested < cursor_state[Len(cursor_state)].events_ingested

\* the most recent row of cursor_state is the state st
Persisted(st) ==
    /\ cursor_state # <<>>
    /\ cursor_state[Len(cursor_state)] =
          [cursor_value |-> st.cursor, events_ingested |-> st.eventsIngested]

\* a non-empty page has been processed and the next one has not been yet
AfterNonEmptyPage ==
    /\ pc \in {"progress", "pace", "loop", "await"}
    /\ PageLen(page) > 0

C18_FinalStatePersisted == pc = "returned" => loadCursor = state

\* the first run over a source of one page of 3 records, undisturbed
SinglePageRun ==
    /\ total = 3
    /\ emptyAt = {}
    /\ restartsLeft = MaxRestarts
    /\ faultsLeft = MaxFaults
    /\ ~shouldStop

\* C19 (as claimed): such a run, its page carrying a final cursor, makes one
\* fetch, writes the 3 rows, and has persisted exactly one checkpoint,
\* (final cursor, 3), when it returns.
C19_OneFetchOneCheckpoint ==
    (SinglePageRun /\ pc = "returned" /\ page.nextCursor # NullCursor) =>
        /\ fetchCalls = 1
        /\ RowCount(ingested_events) = 3 /\ Covers(ingested_events, 1, 3)
        /\ Len(cursor_state) = 1
        /\ Persisted([cursor |-> page.nextCursor, eventsIngested |-> 3])

\* C19 (amended): such a run makes one fetch, writes the 3 rows, and when it
\* returns it has persisted (final cursor, 3) twice, after the page and at
\* shutdown, or nothing at all when the page's next cursor is null.
C19_OneFetchTwoCheckpoints ==
    (SinglePageRun /\ pc = "returned") =>
        /\ fetchCalls = 1
        /\ RowCount(ingested_events) = 3 /\ Covers(ingested_events, 1, 3)
        /\ state = [cursor |-> page.nextCursor, eventsIngested |-> 3]
        /\ LET row == [cursor_value |-> page.nextCursor, events_ingested |-> 3]
           IN  cursor_state = IF page.nextCursor = NullCursor THEN <<>>
                              ELSE <<row, row>>

C19_Witness ==
    /\ SinglePageRun
    /\ pc = "returned"
    /\ Len(cursor_state) = 2
    /\ batchSize = 2
    /\ RowCount(ingested_events) = 3

----------------------------------------------------------------------------
(* Termination (under LiveSpec) *)

\* no failure has been injected, the process has not been killed and stop()
\* has not been called
Undisturbed ==
    /\ faultsLeft = MaxFaults
    /\ restartsLeft = MaxRestarts
    /\ ~shouldStop
    /\ pc \notin {"dead", "crashed"}

\* C20: an undisturbed run eventually returns, in both modes and also when
\* the source has empty pages before its last page; and once a page has
\* reported hasMore = false the run has no fetch outstanding and starts none.
C20_ReturnsAfterLastPage ==
    /\ [](( Running /\ ~hasMore) => call.status = "idle")
    /\ <>(pc = "returned" \/ ~Undisturbed)

----------------------------------------------------------------------------
(* Cancellation and pacing (under Spec) *)

\* C21 (as claimed): once stop() has been called, run starts no fetchPage
\* call, also when stop() was called before run() started.
C21_NoFetchAfterStop ==
    [][(shouldStop /\ call.status # "requesting") =>
           call'.status # "requesting"]_vars

\* C22 (as claimed): a run that returns after stop() has flushed its buffer
\* and its final state is the stored checkpoint.
C22_StopDrainsAndPersists ==
    (pc = "returned" /\ shouldStop) =>
        (buffer = <<>> /\ loadCursor = state)

\* the states in which run is normalizing, writing or counting a page
Processing == pc \in {"add", "addFlush", "update", "save", "progress"}

\* a step that issues a new fetchPage call
IssuesFetch ==
    /\ call' # call
    /\ call'.status = "requesting"
    /\ call'.requests = 1
    /\ call'.log = <<>>

\* C23: in standard mode a fetchPage call is outstanding only while run
\* awaits it, none while a page is written or the run paces; in stream mode
\* the call outstanding while a page is processed is the read-ahead of the
\* next page (its cursor cleared if the source reported it expired); in both
\* modes a call is issued only when none is outstanding.
C23_OneFetchAtATime ==
    /\ []((~isStreamMode /\ call.status = "requesting") => pc = "await")
    /\ []((isStreamMode /\ call.status = "requesting" /\ Processing) =>
              call.cursor \in {page.nextCursor, NullCursor})
    /\ [][IssuesFetch => call.status # "requesting"]_vars

C23_Witness ==
    /\ isStreamMode
    /\ pc = "addFlush"
    /\ call.status = "requesting"
    /\ call.cursor = page.nextCursor

\* C24: the progress callback is called exactly once after every page run
\* has received and processed, empty or not, checkpointed or not, and the
\* count it is given is the eventsIngested of the state after that page:
\* between pages as many calls as pages, during a page one less.
C24_ProgressOncePerPage ==
    /\ pc \in {"loop", "pace", "await", "close", "finalSave", "returned"} =>
          /\ progress.calls = progress.pages
          /\ progress.calls > 0 => progress.count = state.eventsIngested
    /\ (Processing /\ progress.pages < MaxFetchCalls) =>
          progress.calls = progress.pages - 1

C24_Witness ==
    /\ pc = "loop"
    /\ progress.calls = 2
    /\ PageLen(page) = 0
    /\ progress.count = standardLimit
    /\ cursor_state = <<>>

----------------------------------------------------------------------------
(* Normalization (under TransformSpec) *)

\* the record's id is missing or empty
HasNoId(rec) ==
    rec.id.type = "undefined" \/ (rec.id.type = "string" /\ rec.id.text = "")

\* C25: if a record of the page has a missing or empty id, normalization of
\* the page fails as a whole: run goes to its catch block with no row of the
\* page transformed or buffered and the state not advanced.
C25_PageFailsAsAWhole ==
    /\ []((\E i \in DOMAIN raw : HasNoId(raw[i])) =>
              /\ pc \in {"transform", "catch"}
              /\ transformed = <<>>
              /\ buffer = <<>>
              /\ state \in ResumedStates)
    /\ [][(pc = "transform" /\ \E i \in DOMAIN raw : HasNoId(raw[i])) =>
              (pc' = "catch" /\ state' = state /\ buffer' = buffer)]_vars

C25_Witness ==
    /\ pc = "catch"
    /\ Len(raw) = 2
    /\ ~HasNoId(raw[1]) /\ raw[1].timestamp = Str(IsoText)
    /\ HasNoId(raw[2])
    /\ state.eventsIngested = 3

\* the page has been normalized: row i is the row of record i
Normalized == Len(raw) > 0 /\ Len(transformed) = Len(raw)

\* C26 (as claimed): a positive numeric timestamp n below 10^11 is taken as
\* epoch seconds (the instant n s), one at or above 10^11 as epoch
\* milliseconds.
C26_SecondsBelowThreshold ==
    Normalized =>
        \A i \in DOMAIN raw :
            LET n == raw[i].timestamp
            IN  (n.type = "number" /\ JsTruthy(n)) =>
                    transformed[i].timestamp =
                        IF n.q < 10 ^ 8 THEN Instant(n.q * 1000 + n.r, 0)
                        ELSE Instant(n.q, n.r)

\* C27 (as claimed): a row has a null timestamp only when its record has no
\* timestamp field (or a null one).
C27_NullOnlyWhenAbsent ==
    Normalized =>
        \A i \in DOMAIN raw :
            transformed[i].timestamp = NullInstant =>
                raw[i].timestamp.type \in {"undefined", "null"}

----------------------------------------------------------------------------
(* Persistence round trip, credential expiry and endpoint choice (under Spec) *)

\* a step in which saveCursor, called by run, resolves
SaveResolves ==
    /\ pc \in {"save", "finalSave", "catchSave"}
    /\ pc' \in {"progress", "returned", "rejected"}
    /\ faultsLeft' = faultsLeft

\* C28 (as claimed): after saveCursor has resolved for a state, loadCursor
\* returns that state, cursor and eventsIngested.
C28_SaveThenLoad == [][SaveResolves => loadCursor' = state]_vars

\* C29 (as claimed): a run that has received pages in stream mode does not end
\* with the stream token's expiry as its error.
C29_NoRunEndsOnTokenExpiry ==
    ~ /\ pc = "rejected"
      /\ runError = ThrownError("STREAM_TOKEN_EXPIRED")
      /\ progress.pages > 0

\* the endpoint the configuration stands for
ConfiguredEndpoint == IF isStreamMode THEN streamEndpoint ELSE baseEndpoint

----------------------------------------------------------------------------
(* The flush transaction and its connection (under FlushSpec) *)

\* the stages at which flush holds the connection it acquired
HoldsClient ==
    pc \in {"BEGIN", "staging", "upsert", "TRUNCATE", "COMMIT", "ROLLBACK",
            "release"}

\* C31: the holding table is empty whenever no flush transaction is open,
\* after a commit and after a rollback alike; so the merge finds in it the
\* rows of its own batch only, and a commit adds to the destination only rows
\* of that batch.
C31_StagingEmptyBetweenFlushes ==
    /\ [](staging_events = <<>>)
    /\ [](pc \in {"upsert", "TRUNCATE"} => flushing.staging = flushing.batch)
    /\ [][ingested_events' # ingested_events =>
              /\ pc = "COMMIT"
              /\ \A i \in DOMAIN ingested_events' :
                     \/ i \in DOMAIN ingested_events
                     \/ Covers(flushing.batch, ingested_events'[i][1],
                               ingested_events'[i][2])]_vars

C31_Witness ==
    /\ pc = "harness"
    /\ flushing.calls = 2
    /\ ingested_events = <<<<1, 2>>>>
    /\ runError = DbError("TRUNCATE")
    /\ staging_events = <<>>

\* C32: flush acquires at most one connection per call and holds it exactly
\* from BEGIN to the release in its finally block; when flush has resolved or
\* rejected, on commit, on a failed statement and on a failed rollback, no
\* connection is held.
C32_ConnectionReleased ==
    /\ flushing.held = IF HoldsClient THEN 1 ELSE 0
    /\ flushing.acquired <= flushing.calls

C32_Witness ==
    /\ pc = "harness"
    /\ runError = DbError("ROLLBACK")
    /\ flushing.acquired = 1
    /\ flushing.held = 0

\* C33: flush called on an empty buffer returns at once: no connection is
\* acquired, no statement issued, and the buffer, the holding table and the
\* destination are as before.
C33_EmptyFlushIsNoOp ==
    [][(pc = "flush" /\ buffer = <<>>) =>
           /\ pc' = "harness"
           /\ flushing'.acquired = flushing.acquired
           /\ flushing'.statements = flushing.statements
           /\ flushing'.held = 0
           /\ buffer' = buffer
           /\ staging_events' = staging_events
           /\ ingested_events' = ingested_events]_vars

C33_Witness ==
    /\ pc = "harness"
    /\ flushing.calls = 2
    /\ flushing.acquired = 1
    /\ flushing.statements = 5
    /\ ingested_events = <<<<2, 3>>>>
    /\ faultsLeft = MaxFaults

----------------------------------------------------------------------------
(* Classification and termination of one fetchPage call (under FetchSpec) *)

\* the first category of the failed response r that applies to call c, in
\* the order auth failure / credential expiry, cursor expiry, rate limit,
\* transient failure
Category(r, c) ==
    CASE ~r.axios -> "other"
      [] r.status \in {401, 403} -> "auth"
      [] r.status = 400 /\ r.dataCode = "CURSOR_EXPIRED" /\ c.hasParam
            -> "cursor"
      [] r.status = 429 -> "rate"
      [] r.status = NoStatus \/ r.code = "ECONNABORTED" \/ r.status >= 500
            -> "transient"
      [] OTHER -> "other"

\* a step in which a request of the call is answered with a failure
FailedResponseStep ==
    /\ call.status = "requesting"
    /\ Len(call'.log) = Len(call.log) + 1
    /\ call'.log[Len(call'.log)].resp # Ok200

\* what the call does with the failure of category cat
ActsAs(cat, r) ==
    CASE cat = "auth" ->
            /\ call'.status = "failed"
            /\ call'.error = ThrownError(IF call.endpoint = streamEndpoint
                                         THEN "STREAM_TOKEN_EXPIRED"
                                         ELSE "AUTH")
            /\ call'.requests = call.requests
            /\ call'.attempt = call.attempt
      [] cat = "cursor" ->
            /\ call'.status = "requesting"
            /\ ~call'.hasParam
            /\ call'.requests = call.requests + 1
            /\ call'.attempt = call.attempt
      [] cat = "rate" ->
            /\ call'.status = "requesting"
            /\ call'.hasParam = call.hasParam
            /\ call'.requests = call.requests + 1
            /\ call'.attempt = call.attempt
      [] cat = "transient" ->
            IF call.attempt < maxRetries
            THEN /\ call'.status = "requesting"
                 /\ call'.hasParam = call.hasParam
                 /\ call'.requests = call.requests + 1
                 /\ call'.attempt = call.attempt + 1
            ELSE /\ call'.status = "failed"
                 /\ call'.error = ResponseError(r)
      [] OTHER ->
            /\ call'.status = "failed"
            /\ call'.error = ResponseError(r)

\* C34: fetchPage acts on a failed response by the first category that
\* applies in the order auth failure / credential expiry, cursor expiry, rate
\* limit, transient failure; a 401, 403 or 429 that also carries the timeout
\* code is never retried as a transient failure.
C34_ClassificationPrecedence ==
    [][FailedResponseStep =>
           ActsAs(Category(call'.log[Len(call'.log)].resp, call),
                  call'.log[Len(call'.log)].resp)]_vars

C34_Witness ==
    /\ call.status = "failed"
    /\ Len(call.log) = 2
    /\ call.log[1].resp.status = 429 /\ call.log[1].resp.code = "ECONNABORTED"
    /\ call.log[2].resp.status = 401 /\ call.log[2].resp.code = "ECONNABORTED"
    /\ call.attempt = 0
    /\ call.requests = 2

----------------------------------------------------------------------------
(* The cursor of consecutive fetches (under Spec) *)

\* C35 (as claimed): in both pacing modes every fetch after the first page
\* of a run carries the nextCursor of the page received just before it, also
\* when that page was empty with hasMore = true.
C35_FetchFollowsPrecedingPage ==
    [][(IssuesFetch /\ progress'.pages > 0) =>
           call'.cursor = page'.nextCursor]_vars

----------------------------------------------------------------------------
(* The read-ahead at the end of a run (under Spec) *)

\* C36 (as claimed): when run returns or rejects, no fetchPage call that it
\* issued is still outstanding.
C36_NoFetchOutstandingAtEnd ==
    pc \in {"returned", "rejected"} => call.status # "requesting"

----------------------------------------------------------------------------
(* The distance to the last checkpoint (under CheckpointSpec) *)

\* run is between two pages: the page has been counted and, when due, saved
PageBoundary == pc \in {"progress", "pace", "loop", "await"}

\* C37 (as claimed): at every page boundary fewer than 50000 events have been
\* counted since the last persisted checkpoint, in both pacing modes.
C37_UnsavedBelowModulus ==
    PageBoundary =>
        state.eventsIngested - loadCursor.eventsIngested < checkpointModulus

----------------------------------------------------------------------------
(* The persisted count and the destination table (under Spec) *)

\* C38 (as claimed): when a run that started from an empty store has
\* returned, the persisted eventsIngested is the number of rows of the
\* destination table, also after a cursor expiry made a fetchPage call start
\* again from the head of the source (shown here for the runs whose final
\* state carries a cursor, which are persisted).
C38_PersistedCountIsRowCount ==
    (pc = "returned" /\ restartsLeft = MaxRestarts
        /\ state.cursor # NullCursor) =>
        loadCursor.eventsIngested = RowCount(ingested_events)

\* the failed responses of the call that were followed by another request
Retried(i) == i < Len(call.log) \/ call.status = "requesting"

CursorClears ==
    {i \in DOMAIN call.log :
        /\ Retried(i)
        /\ call.log[i].resp.status = 400
        /\ call.log[i].resp.dataCode = "CURSOR_EXPIRED"}

TransientRetries ==
    {i \in DOMAIN call.log :
        /\ Retried(i)
        /\ call.log[i].resp.status \notin {400, 401, 403, 429}
        /\ \/ call.log[i].resp.status = NoStatus
           \/ call.log[i].resp.status >= 500
           \/ call.log[i].resp.code = "ECONNABORTED"}

RateLimited == {i \in DOMAIN call.log : call.log[i].resp.status = 429}

\* the bounds of one call: one cursor clear, maxRetries transient retries,
\* and no response other than a 429 after those and one more
C39_Bounds ==
    /\ Cardinality(CursorClears) <= 1
    /\ Cardinality(TransientRetries) <= 3
    /\ call.attempt = Cardinality(TransientRetries)
    /\ Len(call.log) - Cardinality(RateLimited) <= 3 + 2
    /\ call.status = "requesting" =>
          call.requests = 1 + Cardinality(CursorClears)
                            + Cardinality(TransientRetries)
                            + Cardinality(RateLimited)

\* C39: one fetchPage call clears an expired cursor at most once and retries
\* transient failures at most 3 times in total, whatever 429 responses come
\* in between; the source answering 429 only finitely often, every call ends
\* with a page or with an error.
C39_BoundedRetriesThenEnds ==
    /\ []C39_Bounds
    /\ (call.status = "requesting") ~> (call.status \in {"done", "failed"})

C39_Witness ==
    /\ call.status = "done"
    /\ Cardinality(CursorClears) = 1
    /\ Cardinality(TransientRetries) = 3
    /\ Cardinality(RateLimited) = 1
    /\ call.log[2].resp.status = 429

----------------------------------------------------------------------------
(* The two pacing modes on the same source (under LiveSpec) *)

\* the result a source of `total` records determines, whatever the mode: the
\* destination holds exactly the ids 1..total and the state counts them once
SourceResult ==
    /\ Covers(ingested_events, 1, total)
    /\ RowCount(ingested_events) = total
    /\ state.eventsIngested = total

\* C40 (as claimed): on a finite source without failures a run ends, with
\* standard pacing as with the read-ahead, and it ends with the result the
\* source determines: the same set of ids and the same eventsIngested in both
\* modes.
C40_ModesAgree ==
    /\ []((pc = "returned" /\ Undisturbed) => SourceResult)
    /\ <>(~Undisturbed \/ (pc = "returned" /\ SourceResult))

====
